---- MODULE Spec2Model ----
(***************************************************************************)
(* A model of the message-handling Systems of GUGUbot:                     *)
(*   gugubot/logic/system/basic_system.py   (BasicSystem)                  *)
(*   gugubot/logic/system/echo.py           (EchoSystem)                   *)
(*   gugubot/logic/system/bound_notice.py   (BoundNoticeSystem)            *)
(*   gugubot/logic/plugins/cross_broadcast.py (CrossBroadcastSystem)       *)
(*                                                                         *)
(* Python strings are sequences of one-character strings, so that strip,   *)
(* startswith, replace, slicing and isdigit are computed as Python         *)
(* computes them.  None and "" are both the empty sequence: every place    *)
(* the code reads such a value it only tests its truthiness first.         *)
(***************************************************************************)
EXTENDS Integers, Sequences, FiniteSets, TLC

(***************************************************************************)
(* Bounds of the model.                                                    *)
(***************************************************************************)
\* most spaces put before and after a text, and between its words
MaxPad == 1
\* most segments that follow the first segment of a message
MaxTail == 1
\* the reminders counted for one sender while the sender stays unbound
MaxReminders == 2

(***************************************************************************)
(* str methods                                                             *)
(***************************************************************************)
\* the characters str.strip() removes
Whitespace == {" "}

Digits == {"0", "1", "2", "3", "4", "5", "6", "7", "8", "9"}

RECURSIVE LStrip(_)
LStrip(s) == IF s # <<>> /\ Head(s) \in Whitespace THEN LStrip(Tail(s)) ELSE s

RECURSIVE RStrip(_)
RStrip(s) ==
    IF s # <<>> /\ s[Len(s)] \in Whitespace
    THEN RStrip(SubSeq(s, 1, Len(s) - 1))
    ELSE s

\* s.strip()
Strip(s) == RStrip(LStrip(s))

\* s.startswith(p)
StartsWith(s, p) == Len(p) <= Len(s) /\ SubSeq(s, 1, Len(p)) = p

\* s[n:]
SliceFrom(s, n) == SubSeq(s, n + 1, Len(s))

\* s.replace(old, "", 1): the first occurrence of old is removed
Replace1(s, old) ==
    LET hits == {i \in 1..(Len(s) - Len(old) + 1) : SubSeq(s, i, i + Len(old) - 1) = old}
    IN  IF old = <<>> \/ hits = {}
        THEN s
        ELSE LET i == CHOOSE h \in hits : \A k \in hits : h <= k
             IN  SubSeq(s, 1, i - 1) \o SubSeq(s, i + Len(old), Len(s))

\* s.isdigit()
IsDigit(s) == s # <<>> /\ \A i \in 1..Len(s) : s[i] \in Digits

\* x or y
Or(x, y) == IF x # <<>> THEN x ELSE y

(***************************************************************************)
(* Configuration values and translations the Systems read.  The keys are   *)
(* not set in the model's configuration, so every read yields its default. *)
(***************************************************************************)
\* GUGUBot.command_prefix
CommandPrefix == <<"#">>
\* connector.QQ.source_name
QQSource == <<"Q", "Q">>
\* connector.minecraft.source_name
McSource == <<"M", "i", "n", "e", "c", "r", "a", "f", "t">>
\* connector.minecraft_bridge.source_name
BridgeName == <<"B", "r", "i", "d", "g", "e">>
\* system.cross_broadcast.mc_command
McCommand == <<"m", "c">>
\* system.cross_broadcast.qq_command
QQCommand == <<"!", "!", "q", "q">>
\* connector.QQ.permissions.admin_group_ids, as str(i) for the truthy i
AdminGroupIds == {<<"1", "0">>}

\* self.name of the three Systems
Echo == "echo"
BoundNotice == "bound_notice"
CrossBroadcast == "cross_broadcast"
Systems == {Echo, BoundNotice, CrossBroadcast}

\* the enable argument each constructor hands to BasicSystem.__init__
DefaultEnable(sys) ==
    CASE sys = Echo -> TRUE
      [] sys = BoundNotice -> FALSE
      [] sys = CrossBroadcast -> TRUE

\* get_tr("name"): the display name of a System
SystemName(sys) ==
    CASE sys = Echo -> <<"e", "c", "h", "o">>
      [] sys = BoundNotice -> <<"b", "n">>
      [] sys = CrossBroadcast -> <<"c", "b">>

\* get_tr("gugubot.enable", global_key=True), get_tr("gugubot.disable", ...)
EnableCmd == <<"o", "n">>
DisableCmd == <<"o", "f", "f">>
\* get_tr("gugubot.enable_success", ...), get_tr("gugubot.disable_success", ...)
EnableSuccess == <<"O", "N">>
DisableSuccess == <<"O", "F", "F">>
\* get_tr("notice_message", command_prefix=..., bound_name=...)
NoticeMessage == <<"b", "i", "n", "d">>

(***************************************************************************)
(* Message segments: {"type": ..., "data": {...}}.  data is the payload of *)
(* the segment: the "text" of a text segment, the id of an at segment.     *)
(***************************************************************************)
\* MessageBuilder.text(t)
Text(t) == [type |-> "text", data |-> t]
\* MessageBuilder.at(id)
At(id) == [type |-> "at", data |-> id]

(***************************************************************************)
(* The collaborators.  A dispatch runs against an environment env:         *)
(*   env.connectors   the connector manager's connectors, a set of         *)
(*                    [source, enable, enable_send, enable_receive]        *)
(*   env.bound        whether get_player finds a bound player              *)
(*   env.fault        the collaborator call that raises when it is made:   *)
(*                    "save", "send", "get_connector", "get_player", or    *)
(*                    "none".  An exception ends the handler (or its try   *)
(*                    block), so one fault per dispatch covers every case. *)
(* Each call that acts on a collaborator is logged as a record.            *)
(***************************************************************************)
\* Source.is_from(name)
IsFrom(b, name) == b.origin = name

\* connector_manager.get_connector(name): the set holding the connector, {} for None
GetConnector(env, name) == {c \in env.connectors : c.source = name}

\* the log of a connector_manager.get_connector(name) call
GetConnectorCall(name, env) ==
    [op |-> "get_connector", message |-> <<>>, target |-> {}, mode |-> "",
     names |-> {name}, key |-> <<>>, ok |-> env.fault # "get_connector"]

\* connector_manager.broadcast_processed_info(info, include=names | exclude=names)
SendCall(message, target, mode, names, env) ==
    [op |-> "send", message |-> message, target |-> target, mode |-> mode,
     names |-> names, key |-> <<>>, ok |-> env.fault # "send"]

\* config.save()
SaveCall(env) ==
    [op |-> "save", message |-> <<>>, target |-> {}, mode |-> "",
     names |-> {}, key |-> <<>>, ok |-> env.fault # "save"]

\* player_manager.get_player(sender_id, platform=origin)
GetPlayerCall(b, env) ==
    [op |-> "get_player", message |-> <<>>, target |-> {}, mode |-> "",
     names |-> {b.origin}, key |-> b.sender_id, ok |-> env.fault # "get_player"]

\* what a handler leaves behind: its return value ("True", "False", or "raise"
\* when an exception leaves it), the System's enable flag, the system section
\* of the configuration, and the calls it made
Outcome(ret, enable, config, calls) ==
    [ret |-> ret, enable |-> enable, config |-> config, calls |-> calls]

(***************************************************************************)
(* BasicSystem                                                             *)
(***************************************************************************)
\* BasicSystem.__init__: the enable flag of a System constructed on config.
\* The configuration object itself is there and truthy (it holds the other
\* sections); what may be missing is the entry system.<name>.
Construct(sys, config) ==
    IF sys \in DOMAIN config THEN config[sys] ELSE DefaultEnable(sys)

\* is_command without its event_type test
IsCommandAnyEvent(b, group_admin) ==
    IF b.message = <<>> THEN FALSE
    ELSE IF b.message[1].type # "text" THEN FALSE
    ELSE IF ~StartsWith(b.message[1].data, CommandPrefix) THEN FALSE
    ELSE IF group_admin /\ ~b.is_admin THEN FALSE
    ELSE TRUE

\* BasicSystem.is_command
IsCommand(b, group_admin) ==
    IF b.event_type # "message" THEN FALSE
    ELSE IF b.message = <<>> THEN FALSE
    ELSE IF b.message[1].type # "text" THEN FALSE
    ELSE IF ~StartsWith(b.message[1].data, CommandPrefix) THEN FALSE
    ELSE IF group_admin /\ ~b.is_admin THEN FALSE
    ELSE TRUE

\* a reply target that is keyed by the origin whatever source_id is
ReplyTargetOrigin(b) ==
    {<<b.origin, b.event_sub_type>>}
        \cup (IF b.receiver_source = BridgeName /\ ~IsFrom(b, BridgeName)
              THEN {<<b.receiver_source, b.event_sub_type>>}
              ELSE {})

\* BasicSystem.reply: the target mapping, a set of <<key, event_sub_type>>
ReplyTarget(b) ==
    LET origin_source == b.origin
        target_source ==
            IF b.source_id # <<>> /\ IsDigit(b.source_id)
            THEN b.source_id
            ELSE origin_source
    IN  {<<target_source, b.event_sub_type>>}
        \cup (IF b.receiver_source = BridgeName /\ ~IsFrom(b, BridgeName)
              THEN {<<b.receiver_source, b.event_sub_type>>}
              ELSE {})

\* BasicSystem.reply: the send it makes
Reply(b, message, env) ==
    SendCall(message, ReplyTarget(b), "include", {Or(b.receiver_source, b.origin)}, env)

\* BasicSystem._save_enable_state: the system section after the write
SaveEnableState(sys, enable, config) ==
    IF sys \in DOMAIN config THEN [config EXCEPT ![sys] = enable] ELSE config

\* BasicSystem._handle_switch
HandleSwitch(sys, enable, b, config, env) ==
    LET config1 == SaveEnableState(sys, enable, config)
        saved == IF sys \in DOMAIN config THEN <<SaveCall(env)>> ELSE <<>>
        text == IF enable THEN EnableSuccess ELSE DisableSuccess
        sent == <<Reply(b, <<Text(text)>>, env)>>
    IN  IF sys \in DOMAIN config /\ env.fault = "save"
        THEN Outcome("raise", enable, config1, saved)
        ELSE IF env.fault = "send"
        THEN Outcome("raise", enable, config1, saved \o sent)
        ELSE Outcome("True", enable, config1, saved \o sent)

\* a handle_enable_disable that does not ask whether the sender is an admin
SwitchCommandAnyone(sys, b, group_admin) ==
    IF ~IsCommand(b, group_admin) THEN "none"
    ELSE LET command == Strip(Replace1(b.message[1].data, CommandPrefix))
         IN  IF ~StartsWith(command, SystemName(sys)) THEN "none"
             ELSE LET rest == Strip(Replace1(command, SystemName(sys)))
                  IN  IF rest = EnableCmd THEN "enable"
                      ELSE IF rest = DisableCmd THEN "disable"
                      ELSE "none"

\* BasicSystem.handle_enable_disable: the switch the message asks for,
\* "enable", "disable", or "none"
SwitchCommand(sys, b, group_admin) ==
    IF ~IsCommand(b, group_admin) THEN "none"
    ELSE IF ~b.is_admin THEN "none"
    ELSE LET command == Strip(Replace1(b.message[1].data, CommandPrefix))
         IN  IF ~StartsWith(command, SystemName(sys)) THEN "none"
             ELSE LET rest == Strip(Replace1(command, SystemName(sys)))
                  IN  IF rest = EnableCmd THEN "enable"
                      ELSE IF rest = DisableCmd THEN "disable"
                      ELSE "none"

\* BasicSystem.handle_enable_disable
HandleEnableDisable(sys, enable, b, config, group_admin, env) ==
    LET switch == SwitchCommand(sys, b, group_admin)
    IN  IF switch = "none"
        THEN Outcome("False", enable, config, <<>>)
        ELSE HandleSwitch(sys, switch = "enable", b, config, env)

(***************************************************************************)
(* EchoSystem                                                              *)
(***************************************************************************)
\* an exclude list that leaves out the connectors that may not receive
ExcludeSourceOnly(source_name, env) == {source_name}

\* EchoSystem.process_broadcast_info, the exclude list of the relay
ExcludeSources(source_name, env) ==
    {source_name} \cup {c.source : c \in {d \in env.connectors : ~d.enable_receive}}

\* BasicSystem.create_processed_info and the relay of EchoSystem
EchoRelay(b, source_name, env) ==
    SendCall(b.message, {}, "exclude", ExcludeSources(source_name, env), env)

\* a relay that only leaves the source out when the source may not send
EchoForwardMinusSource(enable, b, config, env) ==
    LET source_name == Or(b.receiver_source, b.origin)
        looked == <<GetConnectorCall(source_name, env)>>
        relayed == <<EchoRelay(b, source_name, env)>>
    IN  IF env.fault = "get_connector"
        THEN Outcome("raise", enable, config, looked)
        ELSE IF env.fault = "send"
        THEN Outcome("False", enable, config, looked \o relayed)
        ELSE Outcome("True", enable, config, looked \o relayed)

\* EchoSystem.process_broadcast_info, from the lookup of the source connector on
EchoForward(enable, b, config, env) ==
    LET source_name == Or(b.receiver_source, b.origin)
        source_connector == GetConnector(env, source_name)
        looked == <<GetConnectorCall(source_name, env)>>
        relayed == <<EchoRelay(b, source_name, env)>>
    IN  IF env.fault = "get_connector"
        THEN Outcome("raise", enable, config, looked)
        ELSE IF source_connector # {} /\ \E c \in source_connector : ~c.enable_send
        THEN Outcome("False", enable, config, looked)
        ELSE IF env.fault = "send"
        THEN Outcome("False", enable, config, looked \o relayed)
        ELSE Outcome("True", enable, config, looked \o relayed)

\* a process_broadcast_info that does not drop the messages of admin groups
EchoProcessAdminGroups(enable, b, config, group_admin, env) ==
    LET h == HandleEnableDisable(Echo, enable, b, config, group_admin, env)
    IN  IF h.ret # "False" THEN h
        ELSE IF ~enable THEN Outcome("False", enable, config, <<>>)
        ELSE IF IsFrom(b, QQSource) /\ b.event_sub_type = "private"
        THEN Outcome("False", enable, config, <<>>)
        ELSE IF b.event_type # "message" THEN Outcome("False", enable, config, <<>>)
        ELSE EchoForward(enable, b, config, env)

\* EchoSystem.process_broadcast_info
EchoProcess(enable, b, config, group_admin, env) ==
    LET h == HandleEnableDisable(Echo, enable, b, config, group_admin, env)
    IN  IF h.ret # "False" THEN h
        ELSE IF ~enable THEN Outcome("False", enable, config, <<>>)
        ELSE IF IsFrom(b, QQSource) /\ b.event_sub_type = "private"
        THEN Outcome("False", enable, config, <<>>)
        ELSE IF /\ IsFrom(b, QQSource)
                /\ b.event_sub_type = "group"
                /\ b.source_id # <<>>
                /\ b.source_id \in AdminGroupIds
        THEN Outcome("False", enable, config, <<>>)
        ELSE IF b.event_type # "message" THEN Outcome("False", enable, config, <<>>)
        ELSE EchoForward(enable, b, config, env)

(***************************************************************************)
(* CrossBroadcastSystem                                                    *)
(***************************************************************************)
\* result = message: the list _strip_command works on is the caller's own
NoCopy(message) == [value |-> message, shared |-> TRUE]

\* copy.deepcopy(message): a list that shares nothing with the caller's
DeepCopy(message) == [value |-> message, shared |-> FALSE]

\* CrossBroadcastSystem._strip_command: the caller's list after the call.  The
\* assignment to result[0] and result.pop(0) reach the caller's list when
\* result is that list; the rebinding of result to the one-space list does not.
StripCommandInbound(message, command) ==
    LET result == DeepCopy(message)
        first_text == result.value[1].data
        remaining_text == Strip(SliceFrom(first_text, Len(command)))
        written ==
            IF remaining_text # <<>>
            THEN [result.value EXCEPT ![1] = [type |-> @.type, data |-> remaining_text]]
            ELSE Tail(result.value)
    IN  IF result.shared THEN written ELSE message

\* CrossBroadcastSystem._strip_command: the list it returns
StripCommand(message, command) ==
    LET first_text == message[1].data
        remaining_text == Strip(SliceFrom(first_text, Len(command)))
        result ==
            IF remaining_text # <<>>
            THEN [message EXCEPT ![1] = [type |-> @.type, data |-> remaining_text]]
            ELSE Tail(message)
    IN  IF result = <<>> THEN <<Text(<<" ">>)>> ELSE result

\* a _broadcast_to_mc that also includes the connector the message came from
BroadcastToMcAndSource(enable, b, message, config, env) ==
    LET connector == GetConnector(env, McSource)
        looked == <<GetConnectorCall(McSource, env)>>
        include == {McSource, Or(b.receiver_source, b.origin)}
    IN  IF env.fault = "get_connector"
        THEN Outcome("raise", enable, config, looked)
        ELSE IF connector = {} \/ \E c \in connector : ~c.enable
        THEN Outcome("False", enable, config, looked)
        ELSE Outcome(IF env.fault = "send" THEN "raise" ELSE "True", enable, config,
                     looked \o <<SendCall(message, {}, "include", include, env)>>)

\* CrossBroadcastSystem._broadcast_to_mc
BroadcastToMc(enable, b, message, config, env) ==
    LET connector == GetConnector(env, McSource)
        looked == <<GetConnectorCall(McSource, env)>>
    IN  IF env.fault = "get_connector"
        THEN Outcome("raise", enable, config, looked)
        ELSE IF connector = {} \/ \E c \in connector : ~c.enable
        THEN Outcome("False", enable, config, looked)
        ELSE Outcome(IF env.fault = "send" THEN "raise" ELSE "True", enable, config,
                     looked \o <<SendCall(message, {}, "include", {McSource}, env)>>)

\* a _broadcast_to_qq that claims the message although it has no connector to
\* relay it to
BroadcastToQqClaimed(enable, b, message, config, env) ==
    LET connector == GetConnector(env, QQSource)
        looked == <<GetConnectorCall(QQSource, env)>>
    IN  IF env.fault = "get_connector"
        THEN Outcome("raise", enable, config, looked)
        ELSE IF connector = {} \/ \E c \in connector : ~c.enable
        THEN Outcome("True", enable, config, looked)
        ELSE Outcome(IF env.fault = "send" THEN "raise" ELSE "True", enable, config,
                     looked \o <<SendCall(message, {}, "include", {QQSource}, env)>>)

\* CrossBroadcastSystem._broadcast_to_qq
BroadcastToQq(enable, b, message, config, env) ==
    LET connector == GetConnector(env, QQSource)
        looked == <<GetConnectorCall(QQSource, env)>>
    IN  IF env.fault = "get_connector"
        THEN Outcome("raise", enable, config, looked)
        ELSE IF connector = {} \/ \E c \in connector : ~c.enable
        THEN Outcome("False", enable, config, looked)
        ELSE Outcome(IF env.fault = "send" THEN "raise" ELSE "True", enable, config,
                     looked \o <<SendCall(message, {}, "include", {QQSource}, env)>>)

\* CrossBroadcastSystem.process_broadcast_info
CrossProcess(enable, b, config, env) ==
    IF b.event_type # "message" THEN Outcome("False", enable, config, <<>>)
    ELSE IF b.message = <<>> \/ b.message[1].type # "text"
    THEN Outcome("False", enable, config, <<>>)
    ELSE IF ~enable THEN Outcome("False", enable, config, <<>>)
    ELSE LET text == Strip(b.message[1].data)
             source_name == Or(b.receiver_source, b.origin)
         IN  IF source_name = QQSource /\ StartsWith(text, CommandPrefix \o McCommand)
             THEN BroadcastToMc(enable, b,
                                StripCommand(b.message, CommandPrefix \o McCommand),
                                config, env)
             ELSE IF source_name = McSource /\ StartsWith(text, QQCommand)
             THEN BroadcastToQq(enable, b, StripCommand(b.message, QQCommand),
                                config, env)
             ELSE Outcome("False", enable, config, <<>>)

\* CrossBroadcastSystem.process_broadcast_info: broadcast_info.message after
\* the call
CrossInbound(enable, b) ==
    IF b.event_type # "message" THEN b.message
    ELSE IF b.message = <<>> \/ b.message[1].type # "text" THEN b.message
    ELSE IF ~enable THEN b.message
    ELSE LET text == Strip(b.message[1].data)
             source_name == Or(b.receiver_source, b.origin)
         IN  IF source_name = QQSource /\ StartsWith(text, CommandPrefix \o McCommand)
             THEN StripCommandInbound(b.message, CommandPrefix \o McCommand)
             ELSE IF source_name = McSource /\ StartsWith(text, QQCommand)
             THEN StripCommandInbound(b.message, QQCommand)
             ELSE b.message

(***************************************************************************)
(* BoundNoticeSystem                                                       *)
(***************************************************************************)
\* a _check_and_notify that does not leave admins alone
CheckAndNotifyAdmins(enable, b, config, env) ==
    IF b.sender_id = <<>> THEN Outcome("False", enable, config, <<>>)
    ELSE IF b.source_id # <<>> /\ b.source_id \in AdminGroupIds
    THEN Outcome("False", enable, config, <<>>)
    ELSE LET looked == <<GetPlayerCall(b, env)>>
             notice == <<Reply(b, <<At(b.sender_id), Text(NoticeMessage)>>, env)>>
         IN  IF env.fault = "get_player"
             THEN Outcome("raise", enable, config, looked)
             ELSE IF env.bound
             THEN Outcome("False", enable, config, looked)
             ELSE IF env.fault = "send"
             THEN Outcome("raise", enable, config, looked \o notice)
             ELSE Outcome("False", enable, config, looked \o notice)

\* a _check_and_notify that sends the reminder twice
CheckAndNotifyTwice(enable, b, config, env) ==
    IF b.sender_id = <<>> THEN Outcome("False", enable, config, <<>>)
    ELSE IF b.is_admin THEN Outcome("False", enable, config, <<>>)
    ELSE IF b.source_id # <<>> /\ b.source_id \in AdminGroupIds
    THEN Outcome("False", enable, config, <<>>)
    ELSE LET looked == <<GetPlayerCall(b, env)>>
             reminder == Reply(b, <<At(b.sender_id), Text(NoticeMessage)>>, env)
             notice == <<reminder, reminder>>
         IN  IF env.fault = "get_player"
             THEN Outcome("raise", enable, config, looked)
             ELSE IF env.bound
             THEN Outcome("False", enable, config, looked)
             ELSE IF env.fault = "send"
             THEN Outcome("raise", enable, config, looked \o notice)
             ELSE Outcome("False", enable, config, looked \o notice)

\* a _check_and_notify that claims the message once it has sent the reminder
CheckAndNotifyHandled(enable, b, config, env) ==
    IF b.sender_id = <<>> THEN Outcome("False", enable, config, <<>>)
    ELSE IF b.is_admin THEN Outcome("False", enable, config, <<>>)
    ELSE IF b.source_id # <<>> /\ b.source_id \in AdminGroupIds
    THEN Outcome("False", enable, config, <<>>)
    ELSE LET looked == <<GetPlayerCall(b, env)>>
             notice == <<Reply(b, <<At(b.sender_id), Text(NoticeMessage)>>, env)>>
         IN  IF env.fault = "get_player"
             THEN Outcome("raise", enable, config, looked)
             ELSE IF env.bound
             THEN Outcome("False", enable, config, looked)
             ELSE IF env.fault = "send"
             THEN Outcome("raise", enable, config, looked \o notice)
             ELSE Outcome("True", enable, config, looked \o notice)

\* BoundNoticeSystem._check_and_notify
CheckAndNotify(enable, b, config, env) ==
    IF b.sender_id = <<>> THEN Outcome("False", enable, config, <<>>)
    ELSE IF b.is_admin THEN Outcome("False", enable, config, <<>>)
    ELSE IF b.source_id # <<>> /\ b.source_id \in AdminGroupIds
    THEN Outcome("False", enable, config, <<>>)
    ELSE LET looked == <<GetPlayerCall(b, env)>>
             notice == <<Reply(b, <<At(b.sender_id), Text(NoticeMessage)>>, env)>>
         IN  IF env.fault = "get_player"
             THEN Outcome("raise", enable, config, looked)
             ELSE IF env.bound
             THEN Outcome("False", enable, config, looked)
             ELSE IF env.fault = "send"
             THEN Outcome("raise", enable, config, looked \o notice)
             ELSE Outcome("False", enable, config, looked \o notice)

\* BoundNoticeSystem.process_broadcast_info
BoundNoticeProcess(enable, b, config, group_admin, has_bound_system, env) ==
    IF b.event_type # "message" THEN Outcome("False", enable, config, <<>>)
    ELSE IF b.message = <<>> THEN Outcome("False", enable, config, <<>>)
    ELSE LET h == HandleEnableDisable(BoundNotice, enable, b, config, group_admin, env)
         IN  IF h.ret # "False" THEN h
             ELSE IF ~enable \/ ~has_bound_system
             THEN Outcome("False", enable, config, <<>>)
             ELSE CheckAndNotify(enable, b, config, env)

(***************************************************************************)
(* Inputs: the inbound events and the environments of a dispatch.  A field *)
(* a handler never reads is held at one value in the events it is given.   *)
(***************************************************************************)
RECURSIVE Spaces(_)
Spaces(n) == IF n = 0 THEN <<>> ELSE <<" ">> \o Spaces(n - 1)

Pads == {Spaces(n) : n \in 0..MaxPad}
Gaps == {<<>>, <<" ">>}
Padded(S) == {l \o t \o r : l \in Pads, t \in S, r \in Pads}

Hi == <<"h", "i">>
SenderId == <<"7">>

\* <prefix><display name> <enable|disable>, with and without the space, with
\* a space after the prefix, and with more text after the keyword
SwitchBodies(sys) ==
    {CommandPrefix \o SystemName(sys) \o g \o k : g \in Gaps, k \in {EnableCmd, DisableCmd}}
    \cup {CommandPrefix \o <<" ">> \o SystemName(sys) \o <<" ">> \o EnableCmd,
          CommandPrefix \o SystemName(sys) \o <<" ">> \o EnableCmd \o Hi}

\* <command>, <command><message> and <command> <message>
RelayBodies(command) == {command} \cup {command \o g \o Hi : g \in Gaps}

RECURSIVE Tails(_)
Tails(n) ==
    IF n = 0 THEN {<<>>}
    ELSE Tails(n - 1) \cup {<<At(SenderId)>> \o t : t \in Tails(n - 1)}

\* the messages whose first segment is one of texts, and two that have none
Messages(texts, tails) ==
    {<<>>, <<At(SenderId)>>} \cup {<<Text(t)>> \o tail : t \in texts, tail \in tails}

\* a plain text, another System's switch, the System's own switch
SwitchTexts(sys, other) ==
    {Hi, CommandPrefix \o SystemName(other) \o <<" ">> \o EnableCmd}
    \cup SwitchBodies(sys)
    \cup Padded({CommandPrefix \o SystemName(sys) \o <<" ">> \o EnableCmd})

EchoTexts == SwitchTexts(Echo, BoundNotice)

BoundNoticeTexts == SwitchTexts(BoundNotice, Echo)

CrossTexts ==
    {CommandPrefix \o SystemName(CrossBroadcast) \o <<" ">> \o DisableCmd}
    \cup Padded({Hi} \cup RelayBodies(CommandPrefix \o McCommand) \cup RelayBodies(QQCommand))

\* no id, the admin group, another group, a channel whose id is no number
SourceIds == {<<>>, <<"1", "0">>, <<"2", "0">>, <<"g">>}

EventTypes == {"message", "notice"}
Origins == {QQSource, McSource, BridgeName}
ReceiverSources == {<<>>, BridgeName}
SubTypes == {"group", "private"}

EchoEvents ==
    [event_type : EventTypes, message : Messages(EchoTexts, {<<>>}),
     origin : Origins, receiver_source : ReceiverSources,
     source_id : SourceIds \ {<<"g">>}, sender_id : {SenderId},
     is_admin : BOOLEAN, event_sub_type : SubTypes]

CrossEvents ==
    [event_type : EventTypes, message : Messages(CrossTexts, Tails(MaxTail)),
     origin : Origins, receiver_source : ReceiverSources,
     source_id : {<<>>}, sender_id : {SenderId},
     is_admin : {TRUE}, event_sub_type : {"group"}]

BoundNoticeEvents ==
    [event_type : EventTypes, message : Messages(BoundNoticeTexts, {<<>>}),
     origin : Origins, receiver_source : ReceiverSources,
     source_id : SourceIds, sender_id : {<<>>, SenderId},
     is_admin : BOOLEAN, event_sub_type : SubTypes]

Connector(name, f) ==
    [source |-> name, enable |-> f[1], enable_send |-> f[2], enable_receive |-> f[3]]

\* <<enable, enable_send, enable_receive>>
ConnectorFlags == {<<TRUE, TRUE, TRUE>>, <<FALSE, TRUE, TRUE>>,
                   <<TRUE, FALSE, TRUE>>, <<TRUE, TRUE, FALSE>>}

AllConnectors == {Connector(QQSource, <<TRUE, TRUE, TRUE>>),
                  Connector(McSource, <<TRUE, TRUE, TRUE>>)}

\* a QQ connector or none, a Minecraft connector or none
ConnectorSets ==
    {qq \cup mc : qq \in {{}} \cup {{Connector(QQSource, f)} : f \in ConnectorFlags},
                  mc \in {{}} \cup {{Connector(McSource, f)} : f \in ConnectorFlags}}

Faults == {"none", "save", "send", "get_connector", "get_player"}

\* Echo never reads a connector's enable
EchoEnvs == [connectors : {cs \in ConnectorSets : \A c \in cs : c.enable},
             bound : {TRUE}, fault : Faults]
CrossEnvs == [connectors : ConnectorSets, bound : {TRUE}, fault : Faults]
BoundNoticeEnvs == [connectors : {AllConnectors}, bound : BOOLEAN, fault : Faults]

\* the fault of env is one the handler ran into
Fired(env, out) ==
    env.fault = "none" \/ \E i \in 1..Len(out.calls) : ~out.calls[i].ok

(***************************************************************************)
(* State: one System object and the configuration entry it reads and       *)
(* writes.  The Systems share no state: each reads and writes only its own *)
(* fields and system.<its own name>.                                       *)
(***************************************************************************)
VARIABLES
    name,          \* self.name: which System the object is
    enable,        \* self.enable
    config,        \* the "system" section of the configuration: config[name] is
                   \* system.<name>.enable, when there is such an entry
    bound_system,  \* whether self.bound_system is set (BoundNoticeSystem)
    pc,            \* "idle", or "done" when a dispatch has returned
    last,          \* the dispatch that has returned
    reminded       \* the reminders the sender has received since the player
                   \* manager last knew the sender as bound (the Systems keep
                   \* no such count: it is here to state what they do)

vars == <<name, enable, config, bound_system, pc, last, reminded>>

Idle == [sys |-> "none"]

ConfigSections(sys) == {<<>>} \cup [{sys} -> BOOLEAN]

\* __init__ of the three Systems
Init ==
    /\ name \in Systems
    /\ config \in ConfigSections(name)
    /\ enable = Construct(name, config)
    /\ bound_system = FALSE
    /\ pc = "idle"
    /\ last = Idle
    /\ reminded = 0

\* the reminder replies among the calls of a dispatch of b
Reminders(b, calls) ==
    SelectSeq(calls, LAMBDA c : /\ c.op = "send"
                                /\ c.message = <<At(b.sender_id), Text(NoticeMessage)>>)

\* the dispatcher has called process_broadcast_info(b); out is what the call
\* left, message what broadcast_info.message is after it
Dispatched(b, env, out, message) ==
    /\ Fired(env, out)
    /\ reminded' = IF env.bound THEN 0
                    ELSE reminded + Len(SelectSeq(Reminders(b, out.calls), LAMBDA c : c.ok))
    /\ reminded' <= MaxReminders
    /\ enable' = out.enable
    /\ config' = out.config
    /\ pc' = "done"
    /\ last' = [sys |-> name, b |-> b, env |-> env, ret |-> out.ret, calls |-> out.calls,
                message |-> message, enable0 |-> enable, config0 |-> config, reminded0 |-> reminded]
    /\ UNCHANGED <<name, bound_system>>

EchoDispatch ==
    /\ pc = "idle"
    /\ name = Echo
    /\ \E b \in EchoEvents, env \in EchoEnvs, group_admin \in BOOLEAN :
         Dispatched(b, env, EchoProcess(enable, b, config, group_admin, env), b.message)

CrossDispatch ==
    /\ pc = "idle"
    /\ name = CrossBroadcast
    /\ \E b \in CrossEvents, env \in CrossEnvs :
         Dispatched(b, env, CrossProcess(enable, b, config, env), CrossInbound(enable, b))

BoundNoticeDispatch ==
    /\ pc = "idle"
    /\ name = BoundNotice
    /\ \E b \in BoundNoticeEvents, env \in BoundNoticeEnvs, group_admin \in BOOLEAN :
         Dispatched(b, env,
                    BoundNoticeProcess(enable, b, config, group_admin, bound_system, env),
                    b.message)

\* BoundNoticeSystem.set_bound_system
SetBoundSystem ==
    /\ pc = "idle"
    /\ name = BoundNotice
    /\ ~bound_system
    /\ bound_system' = TRUE
    /\ UNCHANGED <<name, enable, config, pc, last, reminded>>

\* the dispatch chain is over and the BroadcastInfo is discarded
Discard ==
    /\ pc = "done"
    /\ pc' = "idle"
    /\ last' = Idle
    /\ UNCHANGED <<name, enable, config, bound_system, reminded>>

Next ==
    \/ EchoDispatch
    \/ CrossDispatch
    \/ BoundNoticeDispatch
    \/ SetBoundSystem
    \/ Discard

Spec == Init /\ [][Next]_vars

(***************************************************************************)
(* Properties                                                              *)
(***************************************************************************)
\* a dispatch of sys has returned (or raised)
DoneBy(sys) == pc = "done" /\ last.sys = sys

\* the broadcast_processed_info calls of the last dispatch
Sends == SelectSeq(last.calls, LAMBDA c : c.op = "send")

\* the message of the last dispatch is the enable/disable command of the
\* System that handled it, typed by an admin
OwnSwitch == SwitchCommand(last.sys, last.b, FALSE) # "none"

\* the effective source of the last dispatch: receiver_source, else the origin
EffectiveSource ==
    IF last.b.receiver_source # <<>> THEN last.b.receiver_source ELSE last.b.origin

C2_TogglePersisted ==
    (pc = "done" /\ OwnSwitch /\ last.ret = "True") =>
        /\ enable = (SwitchCommand(last.sys, last.b, FALSE) = "enable")
        /\ Construct(name, config) = enable

\* C3: every broadcast_processed_info call carries a processed_message of at
\* least one segment (stated for the dispatches in which no call fails).
C3_NoEmptySend ==
    (pc = "done" /\ last.env.fault = "none") =>
        \A i \in 1..Len(Sends) : Sends[i].message # <<>>

\* what C4 claims _strip_command yields: the command is removed from the
\* trimmed text of the first segment and the remainder is trimmed
ClaimedStrip(message, command) ==
    LET text == Strip(message[1].data)
        remainder == Strip(SubSeq(text, Len(command) + 1, Len(text)))
    IN  IF remainder # <<>> THEN <<[type |-> "text", data |-> remainder]>> \o Tail(message)
        ELSE IF Tail(message) # <<>> THEN Tail(message)
        ELSE <<[type |-> "text", data |-> <<" ">>]>>

\* the command Cross-Broadcast matches for the effective source of the last dispatch
MatchedCommand ==
    IF EffectiveSource = QQSource THEN CommandPrefix \o McCommand ELSE QQCommand

\* C4: whenever the trimmed text of the first segment starts with the matched
\* command, the sequence Cross-Broadcast relays is the original one with the
\* command removed from that trimmed text and the remainder trimmed (the first
\* segment dropped when nothing remains, one text segment of one space when
\* that empties the sequence), whatever whitespace surrounds the text (stated
\* for the dispatches in which no call fails).
C4_StripsTrimmedCommand ==
    (DoneBy(CrossBroadcast) /\ last.env.fault = "none" /\ Len(Sends) > 0) =>
        Sends[1].message = ClaimedStrip(last.b.message, MatchedCommand)

\* C5: every dispatch completes with a boolean result, also when a send on a
\* relay or reply, a configuration save or a player lookup made during it
\* fails: no exception leaves process_broadcast_info.
C5_NothingThrows ==
    (pc = "done" /\ last.env.fault \in {"none", "send", "save", "get_player"}) =>
        last.ret \in {"True", "False"}

\* C6: in Echo, an exception raised by the lookup of the source connector
\* (step 6) or by the relay (step 7) is caught, and Echo returns false.
C6_EchoCatchesRelayFailures ==
    (DoneBy(Echo) /\ ~OwnSwitch /\ last.env.fault \in {"get_connector", "send"}) =>
        last.ret = "False"

\* C7: for an event whose event_type is not "message", every System returns
\* false, makes no broadcast_processed_info call and leaves its enable flag
\* (and its configuration entry) as it was, whatever the other fields are.
C7_NonMessageIgnored ==
    (pc = "done" /\ last.b.event_type # "message") =>
        /\ last.ret = "False"
        /\ Len(Sends) = 0
        /\ enable = last.enable0
        /\ config = last.config0

\* C7 witness: an admin's event that is no message, whose first segment
\* spells the disable command of the enabled System it is dispatched to
C7_NonMessageSwitchSeen ==
    /\ DoneBy(Echo)
    /\ last.b.event_type # "message"
    /\ last.b.is_admin
    /\ last.enable0
    /\ last.b.message =
         <<Text(CommandPrefix \o SystemName(last.sys) \o <<" ">> \o DisableCmd)>>

\* C8: the exclude set of every Echo relay holds the effective source and
\* the name of every connector whose enable_receive is false.
C8_EchoExcludes ==
    DoneBy(Echo) =>
        \A i \in 1..Len(Sends) :
            Sends[i].mode = "exclude" =>
                /\ EffectiveSource \in Sends[i].names
                /\ \A c \in last.env.connectors :
                     ~c.enable_receive => c.source \in Sends[i].names

\* C8 witness: Echo has relayed while a connector other than the source has
\* enable_receive = false
C8_RelayedPastDeafConnector ==
    /\ DoneBy(Echo)
    /\ last.ret = "True"
    /\ Len(Sends) = 1
    /\ Sends[1].mode = "exclude"
    /\ \E c \in last.env.connectors : ~c.enable_receive /\ c.source # EffectiveSource

\* the lookup of the effective source connector has returned a connector
\* whose enable_send is false
SourceCannotSend ==
    /\ last.env.fault # "get_connector"
    /\ \E c \in last.env.connectors : c.source = EffectiveSource /\ ~c.enable_send

\* C9: if the effective source connector exists and has enable_send = false,
\* Echo makes no relay at all and returns false, for any connector set and any
\* message that is not Echo's own enable/disable command.
C9_NoRelayWhenSourceCannotSend ==
    (DoneBy(Echo) /\ ~OwnSwitch /\ SourceCannotSend) =>
        /\ last.ret = "False"
        /\ Len(Sends) = 0

\* C9 witness: enabled Echo has looked up, for a plain group message from
\* Minecraft, a source connector that may not send, while the other connector
\* could have received
C9_MutedSourceSeen ==
    /\ DoneBy(Echo)
    /\ last.enable0
    /\ last.b.event_type = "message"
    /\ last.b.message = <<Text(Hi)>>
    /\ last.b.origin = McSource
    /\ SourceCannotSend
    /\ \E i \in 1..Len(last.calls) : last.calls[i].op = "get_connector"
    /\ \E c \in last.env.connectors : c.source # EffectiveSource /\ c.enable_receive

\* C10: Cross-Broadcast makes at most one relay per dispatch, and a relay
\* names exactly one destination: the Minecraft connector when the effective
\* source is QQ and the text starts with <prefix><mcCommand>, the QQ connector
\* when the effective source is Minecraft and the text starts with
\* <qqCommand>; never the source, never a third connector.
C10_CrossSingleTarget ==
    DoneBy(CrossBroadcast) =>
        /\ Len(Sends) <= 1
        /\ \A i \in 1..Len(Sends) :
             LET text == Strip(last.b.message[1].data)
             IN  /\ Sends[i].mode = "include"
                 /\ Cardinality(Sends[i].names) = 1
                 /\ EffectiveSource \notin Sends[i].names
                 /\ \/ /\ EffectiveSource = QQSource
                       /\ StartsWith(text, CommandPrefix \o McCommand)
                       /\ Sends[i].names = {McSource}
                    \/ /\ EffectiveSource = McSource
                       /\ StartsWith(text, QQCommand)
                       /\ Sends[i].names = {QQSource}

\* C10 witness: "#mc hi" from QQ has been relayed while a QQ connector and
\* a Minecraft connector are both there
C10_RelayedToMinecraft ==
    /\ DoneBy(CrossBroadcast)
    /\ last.ret = "True"
    /\ EffectiveSource = QQSource
    /\ last.b.message = <<Text(CommandPrefix \o McCommand \o <<" ">> \o Hi)>>
    /\ Cardinality(last.env.connectors) = 2
    /\ Len(Sends) = 1
    /\ Sends[1].message = <<Text(Hi)>>


\* the replies of the last dispatch: the broadcast_processed_info calls made
\* by BasicSystem.reply.  Cross-Broadcast makes none; the relay of Echo is
\* the call that excludes connectors.
Replies ==
    IF last.sys = CrossBroadcast THEN <<>>
    ELSE SelectSeq(Sends, LAMBDA c : c.mode = "include")

\* the keys of a target mapping
TargetKeys(target) == {t[1] : t \in target}

\* C11: the target map of every reply maps targetKey to event_sub_type, where
\* targetKey is source_id when it is numeric and the origin otherwise; it has
\* receiver_source as a second key, mapped to the same event_sub_type, exactly
\* when receiver_source is the bridge connector's name and the source is not
\* from the bridge; it has no other key.
C11_ReplyTargetKeys ==
    pc = "done" =>
        \A i \in 1..Len(Replies) :
            LET b == last.b
                target == Replies[i].target
                targetKey ==
                    IF b.source_id # <<>> /\ \A j \in 1..Len(b.source_id) : b.source_id[j] \in Digits
                    THEN b.source_id
                    ELSE b.origin
                bridged == b.receiver_source = BridgeName /\ b.origin # BridgeName
            IN  /\ <<targetKey, b.event_sub_type>> \in target
                /\ \A t \in target : t[2] = b.event_sub_type
                /\ bridged => /\ <<b.receiver_source, b.event_sub_type>> \in target
                              /\ Cardinality(TargetKeys(target)) = 2
                /\ ~bridged => TargetKeys(target) = {targetKey}
                /\ TargetKeys(target) \subseteq {targetKey, b.receiver_source}

\* C11 witness: a reply to a message from a numeric group of QQ that came in
\* through the bridge: two keys, the group id and the bridge
C11_BridgedReplySeen ==
    /\ pc = "done"
    /\ Len(Replies) = 1
    /\ last.b.origin = QQSource
    /\ last.b.receiver_source = BridgeName
    /\ last.b.source_id = <<"2", "0">>
    /\ Replies[1].target = {<<<<"2", "0">>, last.b.event_sub_type>>,
                            <<BridgeName, last.b.event_sub_type>>}


\* text is the command prefix, the display name of sys and the enable or the
\* disable keyword and nothing else, whitespace between and after them aside
IsSwitchText(sys, text) ==
    /\ StartsWith(text, CommandPrefix)
    /\ LET named == LStrip(SliceFrom(text, Len(CommandPrefix)))
       IN  /\ StartsWith(named, SystemName(sys))
           /\ Strip(SliceFrom(named, Len(SystemName(sys)))) \in {EnableCmd, DisableCmd}

\* the dispatch that has returned is one of a message event sent by an admin
\* whose first segment is a text segment spelling the System's own switch
AdminSwitchDispatched ==
    /\ pc = "done"
    /\ last.sys = name
    /\ last.b.event_type = "message"
    /\ last.b.is_admin
    /\ last.b.message # <<>>
    /\ last.b.message[1].type = "text"
    /\ IsSwitchText(name, last.b.message[1].data)

\* C12: in every step of every behaviour, the enable flag of a System changes
\* only in a dispatch of a message event sent by an admin whose first segment
\* is a text segment made of the command prefix, that System's display name
\* and exactly the enable or the disable keyword; every other step leaves the
\* flag as it was.
C12_EnableChangesOnlySwitch ==
    [][enable' # enable => AdminSwitchDispatched']_vars

\* C12 witness: an admin's "#echo off" has disabled Echo
C12_AdminDisabledEcho ==
    /\ AdminSwitchDispatched
    /\ name = Echo
    /\ last.b.message = <<Text(CommandPrefix \o SystemName(Echo) \o <<" ">> \o DisableCmd)>>
    /\ last.enable0
    /\ ~enable


\* C13: whenever Echo or Cross-Broadcast returns true from a dispatch, it has
\* made a broadcast_processed_info call during that dispatch, and the call
\* returned: a relay, or the confirmation reply of an enable/disable switch.
C13_TrueOnlyAfterOutput ==
    (pc = "done" /\ last.sys \in {Echo, CrossBroadcast} /\ last.ret = "True") =>
        /\ Len(Sends) >= 1
        /\ \A i \in 1..Len(Sends) : Sends[i].ok
        /\ \/ Len(Replies) = 0
           \/ /\ OwnSwitch
              /\ Replies[1].message \in {<<Text(EnableSuccess)>>, <<Text(DisableSuccess)>>}

\* C13 witness: Cross-Broadcast has returned true for "!!qq hi" from
\* Minecraft, having relayed it to QQ
C13_CrossClaimedAfterRelay ==
    /\ DoneBy(CrossBroadcast)
    /\ last.ret = "True"
    /\ EffectiveSource = McSource
    /\ last.b.message = <<Text(QQCommand \o <<" ">> \o Hi)>>
    /\ Len(Sends) = 1
    /\ Sends[1].names = {QQSource}


\* enabled Cross-Broadcast has matched its command in the last dispatch: a
\* message event whose first segment is a text that, trimmed, starts with
\* <prefix><mc_command> and comes from QQ, or starts with <qq_command> and
\* comes from Minecraft
CrossMatched ==
    /\ last.enable0
    /\ last.b.event_type = "message"
    /\ last.b.message # <<>>
    /\ last.b.message[1].type = "text"
    /\ LET text == Strip(last.b.message[1].data)
       IN  \/ EffectiveSource = QQSource /\ StartsWith(text, CommandPrefix \o McCommand)
           \/ EffectiveSource = McSource /\ StartsWith(text, QQCommand)

\* the connector a matched command targets is there and enabled
CrossTargetReady ==
    LET target == IF EffectiveSource = QQSource THEN McSource ELSE QQSource
    IN  \E c \in last.env.connectors : c.source = target /\ c.enable

\* C14: Cross-Broadcast returns true exactly when its command matched and the
\* target connector exists and is enabled; when the target connector is
\* missing or has enable = false it makes no relay and returns false; when the
\* target exists and is enabled it makes the relay, whatever enable_send and
\* enable_receive of the source and of the target are (stated for the
\* dispatches in which the lookup of the target connector returns).
C14_CrossTrueIffTargetReady ==
    (DoneBy(CrossBroadcast) /\ last.env.fault # "get_connector") =>
        /\ last.ret = "True" <=> (CrossMatched /\ CrossTargetReady)
        /\ (CrossMatched /\ ~CrossTargetReady) => (Len(Sends) = 0 /\ last.ret = "False")
        /\ (CrossMatched /\ CrossTargetReady) => Len(Sends) = 1


\* C15: while Echo is disabled it makes no relay and returns false for every
\* inbound event and leaves its flag alone, except that its own enable/disable
\* command from an admin is still handled: the flag is set as the keyword
\* says (an enable command brings Echo back to Enabled), the confirmation is
\* replied and true is returned.
C15_DisabledEchoStillSwitches ==
    (DoneBy(Echo) /\ ~last.enable0) =>
        IF OwnSwitch
        THEN /\ enable = (SwitchCommand(Echo, last.b, FALSE) = "enable")
             /\ Len(Replies) = 1
             /\ Replies[1].message =
                  <<Text(IF enable THEN EnableSuccess ELSE DisableSuccess)>>
             /\ last.ret = "True"
        ELSE /\ Len(Sends) = 0
             /\ last.ret = "False"
             /\ ~enable


SaveFailed ==
    \E i \in 1..Len(last.calls) : last.calls[i].op = "save" /\ ~last.calls[i].ok

\* C17: if the configuration save fails while an enable/disable command is
\* handled, the System's in-memory enable flag keeps the value it had before
\* the command.
C17_FailedSaveKeepsFlag ==
    (pc = "done" /\ OwnSwitch /\ SaveFailed) => enable = last.enable0


\* C18 (as claimed): across any sequence of dispatched messages from a sender
\* who stays unbound, the reminder reply is issued at most once.
C18_ReminderAtMostOnce ==
    reminded <= 1

\* the last dispatch is one Bound-Notice answers with a reminder: a non-empty
\* message event that is not its own switch, handled while it is enabled and
\* has its bound system, from a sender with an id who is no admin and writes
\* outside the admin groups, and for whom the player lookup finds no player
ReminderDue ==
    /\ DoneBy(BoundNotice)
    /\ last.enable0
    /\ bound_system
    /\ last.b.event_type = "message"
    /\ last.b.message # <<>>
    /\ ~OwnSwitch
    /\ last.b.sender_id # <<>>
    /\ ~last.b.is_admin
    /\ last.b.source_id \notin AdminGroupIds
    /\ last.env.fault # "get_player"
    /\ ~last.env.bound

\* C18 (amended): Bound-Notice issues at most one reminder reply per
\* dispatched message, and it issues one for every message of an unbound
\* sender it answers, however many reminders that sender has been sent before.
C18_OneReminderPerMessage ==
    DoneBy(BoundNotice) =>
        /\ Len(Replies) <= 1
        /\ reminded <= last.reminded0 + 1
        /\ ReminderDue => Len(Reminders(last.b, last.calls)) = 1

\* C18 witness: a sender who stays unbound has been reminded a second time
C18_RemindedAgain ==
    /\ ReminderDue
    /\ last.reminded0 = 1
    /\ reminded = 2
    /\ Len(Reminders(last.b, last.calls)) = 1


\* the cases in which C19 says Bound-Notice does nothing: it is disabled, or
\* has no player-lookup collaborator, or the event has no sender_id, or the
\* sender is an admin, or the source_id is one of the admin group ids
NoticeExempt ==
    \/ ~last.enable0
    \/ ~bound_system
    \/ last.b.sender_id = <<>>
    \/ last.b.is_admin
    \/ last.b.source_id \in AdminGroupIds

\* the last dispatch made no collaborator call and changed no state
DidNothing ==
    /\ Len(last.calls) = 0
    /\ enable = last.enable0
    /\ config = last.config0

\* the last dispatch made one player lookup by (sender_id, origin), and made
\* the reminder reply, and no other send, exactly when the lookup returned no
\* bound player
RemindedIffUnbound ==
    /\ Len(SelectSeq(last.calls, LAMBDA c : c.op = "get_player")) = 1
    /\ last.calls[1].op = "get_player"
    /\ last.calls[1].key = last.b.sender_id
    /\ last.calls[1].names = {last.b.origin}
    /\ Len(Reminders(last.b, last.calls)) = Len(Sends)
    /\ Len(Sends) = 1 <=> (last.calls[1].ok /\ ~last.env.bound)
    /\ Len(Sends) <= 1
    /\ enable = last.enable0
    /\ config = last.config0

\* C19 (as claimed): Bound-Notice does nothing (no reply, no player lookup,
\* no state change) whenever it is disabled, or has no player-lookup
\* collaborator, or the event has no sender_id, or the sender is an admin, or
\* the source_id is in the admin-group id list; in every other case it sends
\* the reminder reply exactly when the player lookup by (sender_id, origin)
\* finds no bound player (stated for the dispatches in which no call fails).
C19_NoticeOnlyWhenDue ==
    (DoneBy(BoundNotice) /\ last.env.fault = "none") =>
        IF NoticeExempt THEN DidNothing ELSE RemindedIffUnbound

\* C19 (amended): Bound-Notice does nothing whenever the event is no message
\* event or its message is empty; its own enable/disable command typed by an
\* admin it handles like every System, enabled or not; for any other message
\* it does nothing whenever it is disabled, or has no player-lookup
\* collaborator, or the event has no sender_id, or the sender is an admin, or
\* the source_id is in the admin-group id list, and in every other case it
\* looks the player up by (sender_id, origin) and sends the reminder reply
\* exactly when the lookup returns no bound player.
C19_NoticeOnlyWhenDueForMessages ==
    DoneBy(BoundNotice) =>
        IF last.b.event_type # "message" \/ last.b.message = <<>> THEN DidNothing
        ELSE IF OwnSwitch
        THEN /\ enable = (SwitchCommand(BoundNotice, last.b, FALSE) = "enable")
             /\ Len(Reminders(last.b, last.calls)) = 0
             /\ \A i \in 1..Len(last.calls) : last.calls[i].op # "get_player"
        ELSE IF NoticeExempt THEN DidNothing
        ELSE RemindedIffUnbound

\* C19 witness: enabled Bound-Notice has looked up the sender of a plain
\* message of an ordinary group, found a bound player and sent nothing
C19_BoundSenderLeftAlone ==
    /\ DoneBy(BoundNotice)
    /\ ~NoticeExempt
    /\ last.b.event_type = "message"
    /\ last.b.message = <<Text(Hi)>>
    /\ last.b.source_id = <<"2", "0">>
    /\ last.env.bound
    /\ Len(last.calls) = 1
    /\ last.calls[1].op = "get_player"
    /\ last.calls[1].ok
    /\ last.ret = "False"


\* C20: after any Cross-Broadcast dispatch, whether it returned true or false
\* (or raised), the inbound BroadcastInfo's segment sequence is what it was
\* before the dispatch; when the command matched but the target connector is
\* missing or disabled, the next System in the chain sees the original
\* message, command included.
C20_InboundMessageUnchanged ==
    DoneBy(CrossBroadcast) => last.message = last.b.message

\* C20 witness: "#mc hi" from QQ matched, the Minecraft connector is there but
\* disabled, and Cross-Broadcast has returned false
C20_MatchedButNotRelayed ==
    /\ DoneBy(CrossBroadcast)
    /\ CrossMatched
    /\ ~CrossTargetReady
    /\ \E c \in last.env.connectors : c.source = McSource
    /\ last.b.message = <<Text(CommandPrefix \o McCommand \o <<" ">> \o Hi)>>
    /\ last.ret = "False"
    /\ Len(Sends) = 0

====
